---- MODULE Spec2Model ----
(***************************************************************************)
(* AMRS BETA1 - mean-reversion backtester.                                 *)
(*                                                                         *)
(* Model of SetupDetector (src/core/setup_detector.py) run on a bar series *)
(* whose entry/stop bands were derived by recalculate_atr_bands, of the    *)
(* sweep optimize_atr_levels (src/atrOptimizer.py), of get_pip_factor      *)
(* (src/config/config.py), and of MT5Connector (src/core/mt5_connector.py) *)
(* as used by download_data (src/main.py).                                 *)
(*                                                                         *)
(* Numbers.  The code works on floats; the model works on integers:        *)
(*   - a price is an integer number of 10^-6 price units (1.10000 is       *)
(*     1100000), so round(x, 5) is a real rounding to a multiple of 10;    *)
(*   - a multiplier is given in tenths (2.3 is 23, 3.0 is 30);             *)
(*   - pips are given in tenths of a pip, the precision round(x, 1) keeps; *)
(*   - reward:risk ratios are given in hundredths (round(x, 2)).           *)
(* Positions are 1-based (Python's df.iloc[i] is df[i + 1] here); the      *)
(* differences the code reports (candles_away, candles_held) are the same. *)
(* Python's None is the empty sequence, a present value v is <<v>>.  A      *)
(* float that is not finite is a pair: NaN is <<0, 0>>, +inf is <<1, 0>>.  *)
(***************************************************************************)
EXTENDS Integers, Sequences, FiniteSets, TLC

\* ------------------------------------------------------------------ bounds

\* Number of bars of the input series.
NBars == 4

\* min_candles_away ranges over 0..MaxAway.
MaxAway == 2

\* Number of times detect_all_setups is run on one SetupDetector instance.
MaxRuns == 2

\* Longest atr_range of a sweep.
MaxLevels == 2

\* Number of operations a client performs on one MT5Connector.
MaxOps == 3

\* ------------------------------------------------------- program constants

\* The literal 10000 of simulate_trade_outcome and create_setup.
PipFactor == 10000

\* config.DI_SPREAD_MAX.
DI_SPREAD_MAX == 15

\* BASE_PARAMS['atr_stop_multiplier'] = 3.0, in tenths.
AtrStopMultiplier == 30

\* BASE_PARAMS['min_candles_away'].
BaseMinCandlesAway == 0

\* The default di_spread_max of SetupDetector.__init__.
DiSpreadMaxDefault == 20

\* The baseline level 2.2 of print_results_table, in tenths.
Baseline == 22

\* Timestamps count hours (H4 bars are 4 apart); timedelta.days counts days.
HoursPerDay == 24

None == <<>>
Some(v) == <<v>>

\* The floats a division by 0.0 of numpy scalars yields (with a warning, not an
\* exception): 0.0 / 0.0 is NaN, x / 0.0 with x > 0 is +inf.
NaN == <<0, 0>>
Inf == <<1, 0>>

\* ---------------------------------------------------------------- rounding

\* n / d rounded to the nearest integer, ties to even (Python's round), d > 0.
RoundDiv(n, d) ==
    LET q == n \div d
        r == n % d
    IN  IF 2 * r < d THEN q
        ELSE IF 2 * r > d THEN q + 1
        ELSE IF q % 2 = 0 THEN q ELSE q + 1

\* round(price, 5): a price keeps five decimals, i.e. a multiple of 10 units.
Round5(p) == RoundDiv(p, 10) * 10

\* round(diff * 10000, 1) for a price difference diff, in tenths of a pip:
\* diff * 10^-6 * PipFactor pips = diff * PipFactor * 10 / 10^6 tenths.
PipsOf(diff) == RoundDiv(diff * PipFactor * 10, 1000000)

Abs(x) == IF x < 0 THEN -x ELSE x

\* ------------------------------------------------------------------ inputs

\* Timestamp of the bar at position i, in hours: strictly increasing, not the
\* position.
DateOf(i) == 100 + 4 * i

\* The bars a series is drawn from (without timestamp and bands).  atr is 210
\* units; with entry multiplier 2.3 the entry band lies 483 and the stop band
\* 630 units from the average, with 3.2 the entry band lies 672 units away.
\*   T   touches the average only (high = ema20, the average has a sixth
\*       decimal)                            TW  touches and reaches both stops
\*   LE  below, reaches the 2.3 entry band   LS  below, reaches every band
\*   SE  above, reaches the 2.3 entry band   SS  above, reaches every band
\*   LX  like LE, SX like SE, with a directional spread the filter rejects
\*       (LX exactly DI_SPREAD_MAX, SX above it)
BarT  == [low |-> 1100000, high |-> 1100104, ema20 |-> 1100104, atr |-> 210,
          plus_di |-> 20, minus_di |-> 10]
BarTW == [low |-> 1099300, high |-> 1100900, ema20 |-> 1100100, atr |-> 210,
          plus_di |-> 20, minus_di |-> 10]
BarLE == [low |-> 1099500, high |-> 1099900, ema20 |-> 1100000, atr |-> 210,
          plus_di |-> 10, minus_di |-> 20]
BarLS == [low |-> 1099300, high |-> 1099900, ema20 |-> 1100000, atr |-> 210,
          plus_di |-> 10, minus_di |-> 20]
BarLX == [low |-> 1099500, high |-> 1099900, ema20 |-> 1100000, atr |-> 210,
          plus_di |-> 10, minus_di |-> 25]
BarSE == [low |-> 1100100, high |-> 1100500, ema20 |-> 1100000, atr |-> 210,
          plus_di |-> 20, minus_di |-> 10]
BarSS == [low |-> 1100100, high |-> 1100700, ema20 |-> 1100000, atr |-> 210,
          plus_di |-> 20, minus_di |-> 10]
BarSX == [low |-> 1100100, high |-> 1100500, ema20 |-> 1100000, atr |-> 210,
          plus_di |-> 30, minus_di |-> 10]

\* Bars of a series whose average moves:
\*   TZ  touches an average that has come down to the 2.3 LONG entry band of
\*       the bars above, without reaching their stop band
\*   TE  touches the average and reaches the 2.3 LONG entry band
BarTZ == [low |-> 1099400, high |-> 1099600, ema20 |-> 1099517, atr |-> 210,
          plus_di |-> 20, minus_di |-> 10]
BarTE == [low |-> 1099500, high |-> 1100000, ema20 |-> 1100000, atr |-> 210,
          plus_di |-> 10, minus_di |-> 20]

BarShapes == {BarT, BarTW, BarLE, BarLS, BarLX, BarSE, BarSS, BarSX}

\* The bars of the series detect_all_setups is run on repeatedly.
RerunShapes == {BarT, BarTW, BarLE, BarLS, BarLX, BarSE}

\* The bars of the series whose average moves.
MovingShapes == {BarT, BarLE, BarLS, BarSE, BarTZ, BarTE}

\* Entry multipliers, in tenths: one inside ATR_RANGE, the stop multiplier
\* itself and one beyond it (optimize_atr_levels takes any list).
EntryMultipliers == {23, 30, 32}

\* The analysis windows <<start_date, end_date>>: none, or one that leaves the
\* first and the last bar of the series outside.
AnalysisWindows == {<<None, None>>, <<Some(DateOf(2)), Some(DateOf(NBars - 1))>>}

\* A raw series: NBars bars with their timestamps.
RawSeries(shapes) ==
    [i \in 1..NBars |->
        [datetime |-> DateOf(i), low |-> shapes[i].low, high |-> shapes[i].high,
         ema20 |-> shapes[i].ema20, atr |-> shapes[i].atr,
         plus_di |-> shapes[i].plus_di, minus_di |-> shapes[i].minus_di]]

\* recalculate_atr_bands: entry bands from the multiplier, stop bands fixed.
recalculate_atr_bands(df, atr_entry_multiplier) ==
    [i \in 1..Len(df) |->
        [datetime |-> df[i].datetime, low |-> df[i].low, high |-> df[i].high,
         ema20 |-> df[i].ema20, atr |-> df[i].atr,
         plus_di |-> df[i].plus_di, minus_di |-> df[i].minus_di,
         atr_upper_entry |-> df[i].ema20 + (df[i].atr * atr_entry_multiplier) \div 10,
         atr_lower_entry |-> df[i].ema20 - (df[i].atr * atr_entry_multiplier) \div 10,
         atr_upper_3 |-> df[i].ema20 + (df[i].atr * AtrStopMultiplier) \div 10,
         atr_lower_3 |-> df[i].ema20 - (df[i].atr * AtrStopMultiplier) \div 10]]

\* -------------------------------------------------------------------- config
\* A symbol is the sequence of its characters.

\* config.SYMBOL, the symbol main.py downloads and analyses.
SYMBOL == <<"U", "S", "D", "J", "P", "Y">>

\* SYMBOL of atrOptimizer.py, the symbol of a sweep.
SweepSymbol == <<"E", "U", "R", "U", "S", "D">>

LowerLetters == <<"a", "b", "c", "d", "e", "f", "g", "h", "i", "j", "k", "l", "m",
                  "n", "o", "p", "q", "r", "s", "t", "u", "v", "w", "x", "y", "z">>
UpperLetters == <<"A", "B", "C", "D", "E", "F", "G", "H", "I", "J", "K", "L", "M",
                  "N", "O", "P", "Q", "R", "S", "T", "U", "V", "W", "X", "Y", "Z">>

\* str.upper(): every lower-case letter is replaced by its upper-case letter.
Upper(symbol) ==
    [i \in DOMAIN symbol |->
        IF \E n \in DOMAIN LowerLetters : LowerLetters[n] = symbol[i]
        THEN UpperLetters[CHOOSE n \in DOMAIN LowerLetters : LowerLetters[n] = symbol[i]]
        ELSE symbol[i]]

\* two_decimal_pairs of get_pip_factor.
two_decimal_pairs ==
    {<<"U", "S", "D", "J", "P", "Y">>, <<"E", "U", "R", "J", "P", "Y">>,
     <<"G", "B", "P", "J", "P", "Y">>, <<"A", "U", "D", "J", "P", "Y">>,
     <<"C", "H", "F", "J", "P", "Y">>, <<"C", "A", "D", "J", "P", "Y">>,
     <<"N", "Z", "D", "J", "P", "Y">>}

\* get_pip_factor.
get_pip_factor(symbol) ==
    IF Upper(symbol) \in two_decimal_pairs THEN 100 ELSE 10000

\* ------------------------------------------------------------ SetupDetector

\* The touch condition low <= ema20 <= high of one bar.
TouchesEma(candle) == candle.low <= candle.ema20 /\ candle.ema20 <= candle.high

\* Variant of detect_ema_touches with strict comparisons (C3 tells them apart).
detect_ema_touches_strict(df) ==
    [i \in 1..Len(df) |-> df[i].low < df[i].ema20 /\ df[i].ema20 < df[i].high]

\* detect_ema_touches: the boolean column of the touch condition.
detect_ema_touches(df) == [i \in 1..Len(df) |-> TouchesEma(df[i])]

\* The loop of verify_price_moved_away from position i on.
RECURSIVE VerifyLoop(_, _, _, _)
VerifyLoop(df, i, candles_away, min_away) ==
    IF i > Len(df) THEN <<TRUE, candles_away>>
    ELSE IF TouchesEma(df[i]) THEN <<FALSE, candles_away>>
    ELSE IF candles_away + 1 >= min_away THEN <<TRUE, candles_away + 1>>
    ELSE VerifyLoop(df, i + 1, candles_away + 1, min_away)

\* Variant of verify_price_moved_away that finds every touch valid (C12 tells
\* them apart).
verify_always_valid(df, touch_idx, min_away) == <<TRUE, min_away>>

\* verify_price_moved_away: <<is_valid, candles_away>>.
verify_price_moved_away(df, touch_idx, min_away) ==
    VerifyLoop(df, touch_idx + 1, 0, min_away)

\* Variant of check_di_spread_filter that lets a spread of exactly spread_max
\* pass (C5 tells them apart).
check_di_spread_filter_le(candle, use_filter, spread_max) ==
    IF ~use_filter THEN TRUE
    ELSE Abs(candle.plus_di - candle.minus_di) <= spread_max

\* check_di_spread_filter.
check_di_spread_filter(candle, use_filter, spread_max) ==
    IF ~use_filter THEN TRUE
    ELSE Abs(candle.plus_di - candle.minus_di) < spread_max

\* Variant of CrossesEntryBand in which either band serves either direction
\* (C27 tells them apart).
CrossesEitherBand(candle, direction) ==
    /\ direction \in {"LONG", "SHORT"}
    /\ (candle.low <= candle.atr_lower_entry \/ candle.high >= candle.atr_upper_entry)

\* The band test of detect_entry_at_atr_level for one bar.
CrossesEntryBand(candle, direction) ==
    IF direction = "LONG" THEN candle.low <= candle.atr_lower_entry
    ELSE IF direction = "SHORT" THEN candle.high >= candle.atr_upper_entry
    ELSE FALSE

\* Variant of EntryLoop that scans on past a re-touch (C2 tells them apart).
RECURSIVE EntryLoopNoCancel(_, _, _, _, _)
EntryLoopNoCancel(df, i, direction, use_filter, spread_max) ==
    IF i > Len(df) THEN <<FALSE, None>>
    ELSE IF TouchesEma(df[i])
         THEN EntryLoopNoCancel(df, i + 1, direction, use_filter, spread_max)
    ELSE IF ~check_di_spread_filter(df[i], use_filter, spread_max)
         THEN EntryLoopNoCancel(df, i + 1, direction, use_filter, spread_max)
    ELSE IF CrossesEntryBand(df[i], direction) THEN <<TRUE, Some(i)>>
    ELSE EntryLoopNoCancel(df, i + 1, direction, use_filter, spread_max)

\* Variant of EntryLoop that tests the entry band of a bar before its re-touch
\* (C25 tells them apart).
RECURSIVE EntryLoopBandFirst(_, _, _, _, _)
EntryLoopBandFirst(df, i, direction, use_filter, spread_max) ==
    IF i > Len(df) THEN <<FALSE, None>>
    ELSE IF check_di_spread_filter(df[i], use_filter, spread_max)
            /\ CrossesEntryBand(df[i], direction) THEN <<TRUE, Some(i)>>
    ELSE IF TouchesEma(df[i]) THEN <<FALSE, None>>
    ELSE EntryLoopBandFirst(df, i + 1, direction, use_filter, spread_max)

\* The loop of detect_entry_at_atr_level from position i on.
RECURSIVE EntryLoop(_, _, _, _, _)
EntryLoop(df, i, direction, use_filter, spread_max) ==
    IF i > Len(df) THEN <<FALSE, None>>
    ELSE IF TouchesEma(df[i]) THEN <<FALSE, None>>
    ELSE IF ~check_di_spread_filter(df[i], use_filter, spread_max)
         THEN EntryLoop(df, i + 1, direction, use_filter, spread_max)
    ELSE IF CrossesEntryBand(df[i], direction) THEN <<TRUE, Some(i)>>
    ELSE EntryLoop(df, i + 1, direction, use_filter, spread_max)

\* Variant of EntryStart that looks at every bar after the touch whatever
\* min_candles_away is (C4 tells them apart).
EntryStartNextBar(touch_idx, min_away) == touch_idx + 1

\* The first position detect_entry_at_atr_level looks at.
EntryStart(touch_idx, min_away) ==
    IF touch_idx + min_away = touch_idx THEN touch_idx + min_away + 1
    ELSE touch_idx + min_away

\* detect_entry_at_atr_level: <<found, entry_idx>>.
detect_entry_at_atr_level(df, touch_idx, direction, min_away, use_filter, spread_max) ==
    EntryLoop(df, EntryStart(touch_idx, min_away), direction, use_filter, spread_max)

\* The stop-loss test of simulate_trade_outcome for one bar.
StopHit(candle, direction, sl_price) ==
    IF direction = "LONG" THEN candle.low <= sl_price
    ELSE IF direction = "SHORT" THEN candle.high >= sl_price
    ELSE FALSE

\* Variant of OutcomeLoop that tests the take-profit before the stop-loss
\* (C1 tells them apart).
RECURSIVE OutcomeLoopTpFirst(_, _, _, _, _, _)
OutcomeLoopTpFirst(df, i, entry_idx, direction, entry_price, sl_price) ==
    IF i > Len(df)
    THEN [outcome |-> "OPEN", exit_date |-> None, exit_price |-> None,
          pips |-> 0, candles_held |-> Len(df) - entry_idx + 1]
    ELSE IF TouchesEma(df[i])
    THEN [outcome |-> "WIN", exit_date |-> Some(df[i].datetime),
          exit_price |-> Some(df[i].ema20),
          pips |-> IF direction = "LONG" THEN PipsOf(df[i].ema20 - entry_price)
                   ELSE PipsOf(entry_price - df[i].ema20),
          candles_held |-> i - entry_idx]
    ELSE IF StopHit(df[i], direction, sl_price)
    THEN [outcome |-> "LOSS", exit_date |-> Some(df[i].datetime),
          exit_price |-> Some(sl_price),
          pips |-> IF direction = "LONG" THEN PipsOf(sl_price - entry_price)
                   ELSE PipsOf(entry_price - sl_price),
          candles_held |-> i - entry_idx]
    ELSE OutcomeLoopTpFirst(df, i + 1, entry_idx, direction, entry_price, sl_price)

\* The loop of simulate_trade_outcome from position i on.
RECURSIVE OutcomeLoop(_, _, _, _, _, _)
OutcomeLoop(df, i, entry_idx, direction, entry_price, sl_price) ==
    IF i > Len(df)
    THEN [outcome |-> "OPEN", exit_date |-> None, exit_price |-> None,
          pips |-> 0, candles_held |-> Len(df) - entry_idx + 1]
    ELSE IF direction \notin {"LONG", "SHORT"}
    THEN OutcomeLoop(df, i + 1, entry_idx, direction, entry_price, sl_price)
    ELSE IF StopHit(df[i], direction, sl_price)
    THEN [outcome |-> "LOSS", exit_date |-> Some(df[i].datetime),
          exit_price |-> Some(sl_price),
          pips |-> IF direction = "LONG" THEN PipsOf(sl_price - entry_price)
                   ELSE PipsOf(entry_price - sl_price),
          candles_held |-> i - entry_idx]
    ELSE IF TouchesEma(df[i])
    THEN [outcome |-> "WIN", exit_date |-> Some(df[i].datetime),
          exit_price |-> Some(df[i].ema20),
          pips |-> IF direction = "LONG" THEN PipsOf(df[i].ema20 - entry_price)
                   ELSE PipsOf(entry_price - df[i].ema20),
          candles_held |-> i - entry_idx]
    ELSE OutcomeLoop(df, i + 1, entry_idx, direction, entry_price, sl_price)

\* Variant of simulate_trade_outcome that starts on the bar after the entry bar
\* (C6 tells them apart).
simulate_from_next_bar(df, entry_idx, direction, entry_price, sl_price, tp_ema_ref) ==
    OutcomeLoop(df, entry_idx + 1, entry_idx, direction, entry_price, sl_price)

\* Variant of simulate_trade_outcome that closes a WIN at the take-profit
\* reference recorded at entry (C8 tells them apart).
simulate_exit_at_tp_ref(df, entry_idx, direction, entry_price, sl_price, tp_ema_ref) ==
    LET r == OutcomeLoop(df, entry_idx, entry_idx, direction, entry_price, sl_price)
    IN  IF r.outcome = "WIN"
        THEN [r EXCEPT !.exit_price = Some(tp_ema_ref),
                       !.pips = IF direction = "LONG" THEN PipsOf(tp_ema_ref - entry_price)
                                ELSE PipsOf(entry_price - tp_ema_ref)]
        ELSE r

\* Variant of simulate_trade_outcome that dates an OPEN trade with the last bar
\* (C9 tells them apart).
simulate_open_dated(df, entry_idx, direction, entry_price, sl_price, tp_ema_ref) ==
    LET r == OutcomeLoop(df, entry_idx, entry_idx, direction, entry_price, sl_price)
    IN  IF r.outcome = "OPEN"
        THEN [r EXCEPT !.exit_date = Some(df[Len(df)].datetime)]
        ELSE r

\* Variant of simulate_trade_outcome whose scan leaves out the last bar of
\* the series (C24 tells them apart).
simulate_without_last_bar(df, entry_idx, direction, entry_price, sl_price, tp_ema_ref) ==
    LET r == OutcomeLoop(SubSeq(df, 1, Len(df) - 1), entry_idx, entry_idx,
                         direction, entry_price, sl_price)
    IN  IF r.outcome = "OPEN"
        THEN [r EXCEPT !.candles_held = Len(df) - entry_idx + 1]
        ELSE r

\* Variant of simulate_trade_outcome that counts the bars of an OPEN trade
\* from the entry bar to the last bar without the entry bar, as it counts
\* those of a closed one (C23 tells them apart).
simulate_open_held_to_last(df, entry_idx, direction, entry_price, sl_price, tp_ema_ref) ==
    LET r == OutcomeLoop(df, entry_idx, entry_idx, direction, entry_price, sl_price)
    IN  IF r.outcome = "OPEN"
        THEN [r EXCEPT !.candles_held = Len(df) - entry_idx]
        ELSE r

\* simulate_trade_outcome (tp_ema_ref is a parameter the code never reads).
simulate_trade_outcome(df, entry_idx, direction, entry_price, sl_price, tp_ema_ref) ==
    OutcomeLoop(df, entry_idx, entry_idx, direction, entry_price, sl_price)

\* The prices create_setup reads off the entry bar, lines 131-138.
EntryPrice(entry_candle, direction) ==
    IF direction = "LONG" THEN entry_candle.atr_lower_entry
    ELSE entry_candle.atr_upper_entry

StopPrice(entry_candle, direction) ==
    IF direction = "LONG" THEN entry_candle.atr_lower_3
    ELSE entry_candle.atr_upper_3

\* create_setup: the Setup record of a touch/entry pair.  The values of a row
\* df.iloc[i] are numpy scalars, so the division of line 149 by a stop
\* distance of 0 yields NaN or +inf instead of raising.  "if rr_ratio_real"
\* of line 166 tests the quotient before it is rounded: it is 0, and the field
\* None, exactly when the pips of a closed trade are 0 over a stop distance
\* that is not.  The adx, rsi and atr snapshot columns are copies of the entry
\* bar and are left out.
create_setup(df, touch_idx, entry_idx, direction) ==
    LET entry_candle == df[entry_idx]
        touch_candle == df[touch_idx]
        entry_price == EntryPrice(entry_candle, direction)
        sl_price == StopPrice(entry_candle, direction)
        tp_price_ref == entry_candle.ema20
        sl_distance == Abs(entry_price - sl_price)
        tp_distance_estimated == Abs(entry_price - tp_price_ref)
        \* round(tp_distance / sl_distance, 2), in hundredths
        rr_ratio_estimated == IF sl_distance > 0
                              THEN RoundDiv(tp_distance_estimated * 100, sl_distance)
                              ELSE 0
        trade_result == simulate_trade_outcome(df, entry_idx, direction,
                                               entry_price, sl_price, tp_price_ref)
        \* abs(pips) / (sl_distance * 10000), in hundredths: pips tenths / 10
        \* over sl_distance * PipFactor / 10^6
        rr_ratio_real == IF trade_result.outcome \notin {"WIN", "LOSS"} THEN None
                         ELSE IF sl_distance = 0
                         THEN (IF trade_result.pips = 0 THEN NaN ELSE Inf)
                         ELSE Some(RoundDiv(Abs(trade_result.pips) * 10000000,
                                            sl_distance * PipFactor))
    IN  [touch_date |-> touch_candle.datetime,
         entry_date |-> entry_candle.datetime,
         exit_date |-> trade_result.exit_date,
         direction |-> direction,
         entry_price |-> Round5(entry_price),
         sl_price |-> Round5(sl_price),
         tp_price_ref |-> Round5(tp_price_ref),
         \* "if trade_result['exit_price']": None and 0 are both falsy
         exit_price |-> IF trade_result.exit_price # None /\ trade_result.exit_price[1] # 0
                        THEN Some(Round5(trade_result.exit_price[1]))
                        ELSE None,
         sl_pips |-> PipsOf(sl_distance),
         tp_pips_estimated |-> PipsOf(tp_distance_estimated),
         result_pips |-> trade_result.pips,
         rr_ratio_estimated |-> rr_ratio_estimated,
         \* "if rr_ratio_real": None and 0 are both falsy, NaN and inf are not
         rr_ratio_real |-> IF sl_distance # 0 /\ trade_result.pips = 0
                           THEN None ELSE rr_ratio_real,
         outcome |-> trade_result.outcome,
         candles_away |-> entry_idx - touch_idx,
         candles_held |-> trade_result.candles_held,
         plus_di |-> entry_candle.plus_di,
         minus_di |-> entry_candle.minus_di]

\* "not start_date or d >= start_date" and "not end_date or d <= end_date".
InWindow(d, start, end) ==
    /\ (start = None \/ d >= start[1])
    /\ (end = None \/ d <= end[1])

\* df_analysis of detect_all_setups: the rows inside the window, re-indexed.
AnalysisFrame(df, start, end) ==
    LET Inside(c) == InWindow(c.datetime, start, end)
    IN  SelectSeq(df, Inside)

\* touch_dates of detect_all_setups: the timestamps of the touching rows of
\* df_analysis, in row order.
RECURSIVE MaskedDates(_, _, _)
MaskedDates(df, mask, i) ==
    IF i > Len(df) THEN <<>>
    ELSE IF mask[i] THEN <<df[i].datetime>> \o MaskedDates(df, mask, i + 1)
    ELSE MaskedDates(df, mask, i + 1)

TouchDates(df, start, end) ==
    LET df_analysis == AnalysisFrame(df, start, end)
    IN  MaskedDates(df_analysis, detect_ema_touches(df_analysis), 1)

\* df_full.index[df_full['datetime'] == touch_date].tolist(): ascending.
RECURSIVE MatchesFrom(_, _, _)
MatchesFrom(df, d, i) ==
    IF i > Len(df) THEN <<>>
    ELSE IF df[i].datetime = d THEN <<i>> \o MatchesFrom(df, d, i + 1)
    ELSE MatchesFrom(df, d, i + 1)

Matches(df, d) == MatchesFrom(df, d, 1)

\* -------------------------------------------------------------------- state

VARIABLES
    bars,               \* the series handed to detect_all_setups
    atr_entry_multiplier, \* the multiplier its entry bands were derived with
    min_candles_away,   \* self.min_candles_away
    use_di_filter,      \* self.use_di_filter
    di_spread_max,      \* self.di_spread_max
    start_date,         \* start_date of the run (None or <<d>>)
    end_date,           \* end_date of the run
    pc,                 \* position in detect_all_setups
    touch_dates,        \* touch_dates
    k,                  \* position of the for loop in touch_dates
    touch_idx,          \* touch_idx of the current iteration (0 before any)
    entry_idx,          \* entry_idx, shared by the LONG and the SHORT scan
    setups,             \* self.setups
    returned,           \* the lists detect_all_setups returned so far, in order
    \* optimize_atr_levels (the variables above are then those of the detector
    \* of the latest analyze_atr_level call that ran to its end)
    df,                 \* the dataset load_processed_data returned
    df_columns,         \* the columns the dataset has
    atr_range,          \* atr_range: a multiplier in tenths <<m>>, or None
    pos,                \* position of the for loop in atr_range
    results,            \* results
    sweep_pc,           \* position in optimize_atr_levels
    table,              \* the value returned: None or <<df_results>>
    improvement,        \* the improvement over the baseline that was printed
    failure,            \* the columns named by the error that ended the run
    \* MT5Connector and download_data of main.py
    connected,          \* self.connected
    session,            \* the MetaTrader5 module holds a terminal session
    mt5_calls,          \* the calls made on the MetaTrader5 module, in order
    calls,              \* the operations completed on the connector, with results
    dd_pc,              \* position in download_data ("off": no download_data)
    dd_result           \* how download_data ends: "None", or the exception raised

sweepvars == <<df, df_columns, atr_range, pos, results, sweep_pc, table,
               improvement, failure>>

connvars == <<connected, session, mt5_calls, calls, dd_pc, dd_result>>

vars == <<bars, atr_entry_multiplier, min_candles_away, use_di_filter,
          di_spread_max, start_date, end_date, pc, touch_dates, k, touch_idx,
          entry_idx, setups, returned, sweepvars, connvars>>

\* No connector exists.
NoConnector ==
    /\ connected = FALSE
    /\ session = FALSE
    /\ mt5_calls = <<>>
    /\ calls = <<>>
    /\ dd_pc = "off"
    /\ dd_result = "None"

params == <<bars, atr_entry_multiplier, min_candles_away, use_di_filter,
            di_spread_max, start_date, end_date>>

\* SetupDetector.__init__ and the arguments of the run, for a series with
\* timestamps drawn from seriesSet.
DetectorInitOn(seriesSet) ==
    /\ \E raw \in seriesSet, m \in EntryMultipliers :
          /\ atr_entry_multiplier = m
          /\ bars = recalculate_atr_bands(raw, m)
    /\ min_candles_away \in 0..MaxAway
    /\ use_di_filter \in BOOLEAN
    /\ di_spread_max = DI_SPREAD_MAX
    /\ \E w \in AnalysisWindows :
          /\ start_date = w[1]
          /\ end_date = w[2]
    /\ pc = "idle"
    /\ touch_dates = <<>>
    /\ k = 1
    /\ touch_idx = 0
    /\ entry_idx = None
    /\ setups = <<>>
    /\ returned = <<>>
    \* the detector is used on its own: no sweep
    /\ df = <<>>
    /\ df_columns = {}
    /\ atr_range = <<>>
    /\ pos = 1
    /\ results = <<>>
    /\ sweep_pc = "off"
    /\ table = None
    /\ improvement = None
    /\ failure = {}
    /\ NoConnector

\* The same for a series of strictly increasing timestamps drawn from the bars
\* of shapeSet.
DetectorInit(shapeSet) ==
    DetectorInitOn({RawSeries(shapes) : shapes \in [1..NBars -> shapeSet]})

Init == DetectorInit(BarShapes)

\* Variant of Begin that keeps the Setups self.setups already holds (C11 tells
\* them apart).
BeginKeepSetups ==
    /\ touch_dates' = TouchDates(bars, start_date, end_date)
    /\ setups' = setups
    /\ k' = 1
    /\ pc' = "loop"
    /\ touch_idx' = 0
    /\ entry_idx' = None
    /\ UNCHANGED <<params, sweepvars, connvars, returned>>

\* detect_all_setups, lines 183-196: the window, the touches, self.setups = [].
\* The arguments are those of Init; touch_idx and entry_idx are locals of the
\* call and hold nothing of an earlier call.
BeginRun ==
    /\ touch_dates' = TouchDates(bars, start_date, end_date)
    /\ setups' = <<>>
    /\ k' = 1
    /\ pc' = "loop"
    /\ touch_idx' = 0
    /\ entry_idx' = None
    /\ UNCHANGED <<params, sweepvars, connvars, returned>>

\* The first call of detect_all_setups on the instance.
Begin ==
    /\ pc = "idle"
    /\ BeginRun

\* A further call of detect_all_setups on the same instance with the same
\* series and arguments, after the previous call returned.
Rerun ==
    /\ pc = "done"
    /\ Len(returned) < MaxRuns
    /\ BeginRun

\* Variant of NextTouch that rejects a touch only when the validator found it
\* invalid (C13 tells them apart).
NextTouchValidOnly ==
    /\ pc = "loop"
    /\ k <= Len(touch_dates)
    /\ LET matches == Matches(bars, touch_dates[k])
       IN  IF matches = <<>>
           THEN /\ k' = k + 1
                /\ UNCHANGED <<pc, touch_idx>>
           ELSE LET v == verify_price_moved_away(bars, matches[1], min_candles_away)
                IN  /\ touch_idx' = matches[1]
                    /\ IF min_candles_away > 0 /\ ~v[1]
                       THEN /\ k' = k + 1
                            /\ pc' = pc
                       ELSE /\ k' = k
                            /\ pc' = "long"
    /\ UNCHANGED <<params, sweepvars, connvars, touch_dates, entry_idx, setups, returned>>

\* Lines 198-207: the next touch date is resolved in the full series and, with
\* min_candles_away > 0, validated; a rejected touch ends the iteration.
NextTouch ==
    /\ pc = "loop"
    /\ k <= Len(touch_dates)
    /\ LET matches == Matches(bars, touch_dates[k])
       IN  IF matches = <<>>
           THEN /\ k' = k + 1
                /\ UNCHANGED <<pc, touch_idx>>
           ELSE LET v == verify_price_moved_away(bars, matches[1], min_candles_away)
                IN  /\ touch_idx' = matches[1]
                    /\ IF min_candles_away > 0 /\ (~v[1] \/ v[2] < min_candles_away)
                       THEN /\ k' = k + 1
                            /\ pc' = pc
                       ELSE /\ k' = k
                            /\ pc' = "long"
    /\ UNCHANGED <<params, sweepvars, connvars, touch_dates, entry_idx, setups, returned>>

\* Variant of ScanDirection in which the SHORT scan is skipped once the LONG
\* scan of the touch found an entry (C10 tells them apart).
ScanDirectionElif(direction, after) ==
    LET skip == direction = "SHORT" /\ entry_idx # None
        r == IF skip THEN <<FALSE, entry_idx>>
             ELSE detect_entry_at_atr_level(bars, touch_idx, direction,
                                            min_candles_away, use_di_filter, di_spread_max)
        accepted == r[1] /\ InWindow(bars[r[2][1]].datetime, start_date, end_date)
    IN  /\ entry_idx' = r[2]
        /\ setups' = IF accepted
                     THEN Append(setups, create_setup(bars, touch_idx, r[2][1], direction))
                     ELSE setups
        /\ pc' = after
        /\ k' = IF after # "loop" THEN k ELSE k + 1

\* Variant of ScanDirection that accepts an entry wherever its bar lies (C26
\* tells them apart).
ScanDirectionNoWindow(direction, after) ==
    LET r == detect_entry_at_atr_level(bars, touch_idx, direction,
                                       min_candles_away, use_di_filter, di_spread_max)
    IN  /\ entry_idx' = r[2]
        /\ setups' = IF r[1]
                     THEN Append(setups, create_setup(bars, touch_idx, r[2][1], direction))
                     ELSE setups
        /\ pc' = after
        /\ k' = IF after # "loop" THEN k ELSE k + 1

\* The scan of one direction, lines 210-215 and 218-223, continuing at
\* `after`.
ScanDirection(direction, after) ==
    LET r == detect_entry_at_atr_level(bars, touch_idx, direction,
                                       min_candles_away, use_di_filter, di_spread_max)
        accepted == r[1] /\ InWindow(bars[r[2][1]].datetime, start_date, end_date)
    IN  /\ entry_idx' = r[2]
        /\ setups' = IF accepted
                     THEN Append(setups, create_setup(bars, touch_idx, r[2][1], direction))
                     ELSE setups
        /\ pc' = after
        /\ k' = IF after # "loop" THEN k ELSE k + 1

\* Lines 209-215: the LONG scan of the current touch.
ScanLong ==
    /\ pc = "long"
    /\ ScanDirection("LONG", "short")
    /\ UNCHANGED <<params, sweepvars, connvars, touch_dates, touch_idx, returned>>

\* Lines 217-223: the SHORT scan of the current touch, then the next touch.
ScanShort ==
    /\ pc = "short"
    /\ ScanDirection("SHORT", "loop")
    /\ UNCHANGED <<params, sweepvars, connvars, touch_dates, touch_idx, returned>>

\* Lines 225-226: the loop is over, self.setups is returned.
Finish ==
    /\ pc = "loop"
    /\ k > Len(touch_dates)
    /\ pc' = "done"
    /\ returned' = Append(returned, setups)
    /\ UNCHANGED <<params, sweepvars, connvars, touch_dates, k, touch_idx, entry_idx, setups>>

Next == Begin \/ NextTouch \/ ScanLong \/ ScanShort \/ Finish

Spec == Init /\ [][Next]_vars

\* detect_all_setups called up to MaxRuns times on one instance.
RerunInit == DetectorInit(RerunShapes)

RerunNext == Begin \/ NextTouch \/ ScanLong \/ ScanShort \/ Finish \/ Rerun

RerunSpec == RerunInit /\ [][RerunNext]_vars

\* detect_all_setups on a series as a file may hold it: nothing between the
\* download and the detector orders the rows or removes a repeated timestamp
\* (MT5Connector._validate_data prints a warning and returns).
FeedShapes == {BarT, BarLE, BarLS, BarSE}

\* The timestamps of the rows: strictly increasing; the second row repeating
\* the timestamp of the first; the first two rows in reverse order.
StampLists ==
    {[i \in 1..NBars |-> DateOf(i)],
     [i \in 1..NBars |-> IF i = 2 THEN DateOf(1) ELSE DateOf(i)],
     [i \in 1..NBars |-> IF i = 1 THEN DateOf(2)
                         ELSE IF i = 2 THEN DateOf(1) ELSE DateOf(i)]}

StampedSeries(shapes, stamps) ==
    [i \in 1..NBars |-> [RawSeries(shapes)[i] EXCEPT !.datetime = stamps[i]]]

FeedInit ==
    DetectorInitOn({StampedSeries(shapes, stamps) :
                       shapes \in [1..NBars -> FeedShapes], stamps \in StampLists})

FeedSpec == FeedInit /\ [][Next]_vars

\* detect_all_setups on a series whose average moves from bar to bar.
MovingInit == DetectorInit(MovingShapes)

MovingSpec == MovingInit /\ [][Next]_vars

\* ------------------------------------------------------------- atrOptimizer

\* A quotient n / d of the statistics, d > 0, kept exact as the pair <<n, d>>;
\* the int 0 the code returns for an empty bucket is <<0, 1>>.
Ratio(n, d) == <<n, d>>
Zero == <<0, 1>>

\* detect_all_setups as one call: the loop over touch_dates from position kk
\* on, st holding self.setups and the locals touch_idx and entry_idx.
RECURSIVE DetectLoop(_, _, _, _, _)
DetectLoop(frame, cfg, dates, kk, st) ==
    IF kk > Len(dates) THEN st
    ELSE LET matches == Matches(frame, dates[kk])
         IN  IF matches = <<>> THEN DetectLoop(frame, cfg, dates, kk + 1, st)
             ELSE LET t == matches[1]
                      v == verify_price_moved_away(frame, t, cfg.min_candles_away)
                  IN  IF cfg.min_candles_away > 0
                         /\ (~v[1] \/ v[2] < cfg.min_candles_away)
                      THEN DetectLoop(frame, cfg, dates, kk + 1,
                                      [st EXCEPT !.touch_idx = t])
                      ELSE LET rl == detect_entry_at_atr_level(frame, t, "LONG",
                                         cfg.min_candles_away, cfg.use_di_filter,
                                         cfg.di_spread_max)
                               s1 == IF rl[1] /\ InWindow(frame[rl[2][1]].datetime,
                                                          cfg.start_date, cfg.end_date)
                                     THEN Append(st.setups,
                                                 create_setup(frame, t, rl[2][1], "LONG"))
                                     ELSE st.setups
                               rs == detect_entry_at_atr_level(frame, t, "SHORT",
                                         cfg.min_candles_away, cfg.use_di_filter,
                                         cfg.di_spread_max)
                               s2 == IF rs[1] /\ InWindow(frame[rs[2][1]].datetime,
                                                          cfg.start_date, cfg.end_date)
                                     THEN Append(s1,
                                                 create_setup(frame, t, rs[2][1], "SHORT"))
                                     ELSE s1
                           IN  DetectLoop(frame, cfg, dates, kk + 1,
                                          [setups |-> s2, touch_idx |-> t,
                                           entry_idx |-> rs[2]])

\* detect_all_setups: the state the call ends in, cfg being the detector's
\* parameters and the window.
detect_all_setups(frame, cfg) ==
    DetectLoop(frame, cfg, TouchDates(frame, cfg.start_date, cfg.end_date), 1,
               [setups |-> <<>>, touch_idx |-> 0, entry_idx |-> None])

\* sum(s['result_pips'] for s in trades), in tenths of a pip.
RECURSIVE SumPips(_)
SumPips(trades) ==
    IF trades = <<>> THEN 0 ELSE Head(trades).result_pips + SumPips(Tail(trades))

\* min(s['result_pips'] for s in trades), trades not empty.
RECURSIVE MinPips(_)
MinPips(trades) ==
    IF Len(trades) = 1 THEN Head(trades).result_pips
    ELSE LET m == MinPips(Tail(trades))
         IN  IF Head(trades).result_pips < m THEN Head(trades).result_pips ELSE m

\* (end_date - start_date).days, the timestamps counting hours.
WindowDays(start, end) == (end - start) \div HoursPerDay

\* The rows of lines 138-151 and 159-172.
EmptyMetrics(atr_level, total_trades) ==
    [atr_level |-> atr_level, total_trades |-> total_trades,
     win_trades |-> 0, loss_trades |-> 0, win_rate |-> Zero,
     avg_win_pips |-> Zero, avg_loss_pips |-> Zero, total_pips |-> 0,
     expectancy |-> Zero, profit_factor |-> Zero, trades_per_year |-> Zero,
     max_drawdown |-> 0]

\* Lines 174-210 of analyze_atr_level: the row of a collection with closed
\* trades, trades_per_year being given.
ClosedMetrics(atr_level, found, trades_per_year) ==
    LET IsClosedTrade(s) == s.outcome \in {"WIN", "LOSS"}
        IsWin(s) == s.outcome = "WIN"
        IsLoss(s) == s.outcome = "LOSS"
        closed_trades == SelectSeq(found, IsClosedTrade)
        wins == SelectSeq(found, IsWin)
        losses == SelectSeq(found, IsLoss)
        total_trades == Len(closed_trades)
        win_trades == Len(wins)
        loss_trades == Len(losses)
        total_pips == SumPips(closed_trades)
        win_pips_total == SumPips(wins)
        loss_pips_total == SumPips(losses)
    IN  [atr_level |-> atr_level,
         total_trades |-> total_trades,
         win_trades |-> win_trades,
         loss_trades |-> loss_trades,
         win_rate |-> IF total_trades > 0
                      THEN Ratio(win_trades * 100, total_trades) ELSE Zero,
         avg_win_pips |-> IF win_trades > 0
                          THEN Ratio(win_pips_total, win_trades) ELSE Zero,
         avg_loss_pips |-> IF loss_trades > 0
                           THEN Ratio(Abs(loss_pips_total), loss_trades) ELSE Zero,
         total_pips |-> total_pips,
         expectancy |-> IF total_trades > 0
                        THEN Ratio(total_pips, total_trades) ELSE Zero,
         profit_factor |-> IF loss_pips_total # 0
                           THEN Ratio(win_pips_total, Abs(loss_pips_total))
                           ELSE Inf,
         trades_per_year |-> trades_per_year,
         max_drawdown |-> IF losses # <<>> THEN MinPips(losses) ELSE 0]

\* Variant of Metrics that divides by the years of the window whatever their
\* number (C15 tells them apart).
MetricsYearsUnguarded(atr_level, found, start, end) ==
    LET IsClosedTrade(s) == s.outcome \in {"WIN", "LOSS"}
        closed_trades == SelectSeq(found, IsClosedTrade)
    IN  IF found = <<>> THEN EmptyMetrics(atr_level, 0)
        ELSE IF closed_trades = <<>> THEN EmptyMetrics(atr_level, Len(found))
        ELSE ClosedMetrics(atr_level, found,
                           Ratio(Len(closed_trades) * 36525,
                                 WindowDays(start, end) * 100))

\* Lines 137-210 of analyze_atr_level: the metrics of the Setups found;
\* trades_per_year is total_trades / (days / 365.25) for a window of a day
\* and more.
Metrics(atr_level, found, start, end) ==
    LET IsClosedTrade(s) == s.outcome \in {"WIN", "LOSS"}
        closed_trades == SelectSeq(found, IsClosedTrade)
        days == WindowDays(start, end)
    IN  IF found = <<>> THEN EmptyMetrics(atr_level, 0)
        ELSE IF closed_trades = <<>> THEN EmptyMetrics(atr_level, Len(found))
        ELSE ClosedMetrics(atr_level, found,
                           IF days > 0
                           THEN Ratio(Len(closed_trades) * 36525, days * 100)
                           ELSE Zero)

\* The parameters analyze_atr_level runs its detector with.
AnalysisConfig(start, end) ==
    [min_candles_away |-> BaseMinCandlesAway, use_di_filter |-> FALSE,
     di_spread_max |-> DiSpreadMaxDefault, start_date |-> Some(start),
     end_date |-> Some(end)]

\* analyze_atr_level raises: the product of line 110 with a multiplier that is
\* no number (TypeError), or the read of a price column the dataset lacks in
\* detect_ema_touches (KeyError).
analyze_raises(columns, level) ==
    \/ level = None
    \/ ~({"low", "high"} \subseteq columns)

\* analyze_atr_level, when it returns: the final state of its detector and the
\* metrics.
analyze_atr_level(frame, level, start, end) ==
    LET df_with_new_bands == recalculate_atr_bands(frame, level[1])
        run == detect_all_setups(df_with_new_bands, AnalysisConfig(start, end))
    IN  [frame |-> df_with_new_bands, run |-> run,
         metrics |-> Metrics(level[1], run.setups, start, end)]

\* a >= b for two quotients.
RatioGeq(a, b) == a[1] * b[2] >= b[1] * a[2]

\* A row of df_results: the metrics with their ranking.
Ranked(m, ranking) ==
    [atr_level |-> m.atr_level, total_trades |-> m.total_trades,
     win_trades |-> m.win_trades, loss_trades |-> m.loss_trades,
     win_rate |-> m.win_rate, avg_win_pips |-> m.avg_win_pips,
     avg_loss_pips |-> m.avg_loss_pips, total_pips |-> m.total_pips,
     expectancy |-> m.expectancy, profit_factor |-> m.profit_factor,
     trades_per_year |-> m.trades_per_year, max_drawdown |-> m.max_drawdown,
     ranking |-> ranking]

\* Variant of generate_summary_table that sorts ascending (C16 tells them
\* apart).
generate_summary_table_ascending(rows) ==
    LET n == Len(rows)
        Orders == {o \in [1..n -> 1..n] :
                      /\ \A i, j \in 1..n : i # j => o[i] # o[j]
                      /\ \A i \in 1..(n - 1) :
                            RatioGeq(rows[o[i + 1]].expectancy, rows[o[i]].expectancy)}
    IN  {[i \in 1..n |-> Ranked(rows[o[i]], i)] : o \in Orders}

\* generate_summary_table: the rows sorted by expectancy, descending, and
\* ranked 1..n.  sort_values sorts with quicksort, which promises no order
\* among rows of equal expectancy: every such order is a possible table.
generate_summary_table(rows) ==
    LET n == Len(rows)
        Orders == {o \in [1..n -> 1..n] :
                      /\ \A i, j \in 1..n : i # j => o[i] # o[j]
                      /\ \A i \in 1..(n - 1) :
                            RatioGeq(rows[o[i]].expectancy, rows[o[i + 1]].expectancy)}
    IN  {[i \in 1..n |-> Ranked(rows[o[i]], i)] : o \in Orders}

\* Lines 268-272 of print_results_table: the improvement of the best row over
\* the first row of the baseline level, None without such a row.  The values
\* of a row are numpy scalars: a baseline expectancy of 0 gives NaN or +inf.
Improvement(df_results) ==
    LET IsBaseline(r) == r.atr_level = Baseline
        baseline == SelectSeq(df_results, IsBaseline)
        best == df_results[1].expectancy
        base == baseline[1].expectancy
        diff == best[1] * base[2] - base[1] * best[2]
    IN  IF baseline = <<>> THEN None
        ELSE IF base[1] = 0 THEN (IF diff = 0 THEN NaN ELSE Inf)
        ELSE Ratio(diff * 100, best[2] * Abs(base[1]))

\* The datasets of a sweep are drawn from these bars.
SweepShapes == {BarT, BarTW, BarLE, BarLS, BarSE}

\* The entries atr_range is drawn from: the baseline 2.2, the stop multiplier
\* 3.0, and an entry that is no number.
SweepLevels == {Some(Baseline), Some(AtrStopMultiplier), None}

\* The columns of a processed dataset.
AllColumns == {"datetime", "open", "high", "low", "close", "ema20", "atr",
               "adx", "plus_di", "minus_di", "rsi"}

\* required_columns of optimize_atr_levels.
required_columns == {"datetime", "ema20", "atr", "adx", "plus_di", "minus_di", "rsi"}

\* The datasets' columns and the window <<start_date, end_date>> of a sweep:
\* every column with a window of a day and more, of less than a day, and with
\* its end before its start; one column missing with the first window.
SweepInputs ==
    {<<AllColumns, DateOf(1), DateOf(NBars) + HoursPerDay>>,
     <<AllColumns, DateOf(2), DateOf(NBars - 1)>>,
     <<AllColumns, DateOf(3), DateOf(2)>>,
     <<AllColumns \ {"close"}, DateOf(1), DateOf(NBars) + HoursPerDay>>,
     <<AllColumns \ {"low"}, DateOf(1), DateOf(NBars) + HoursPerDay>>,
     <<AllColumns \ {"rsi"}, DateOf(1), DateOf(NBars) + HoursPerDay>>}

\* The lists of at most MaxLevels entries.
LevelLists == UNION {[1..n -> SweepLevels] : n \in 0..MaxLevels}

\* optimize_atr_levels is called: no detector exists yet.
SweepInit ==
    /\ \E shapes \in [1..NBars -> SweepShapes] : df = RawSeries(shapes)
    /\ \E inp \in SweepInputs :
          /\ df_columns = inp[1]
          /\ start_date = Some(inp[2])
          /\ end_date = Some(inp[3])
    /\ atr_range \in LevelLists
    /\ pos = 1
    /\ results = <<>>
    /\ sweep_pc = "start"
    /\ table = None
    /\ improvement = None
    /\ failure = {}
    /\ bars = <<>>
    /\ atr_entry_multiplier = 0
    /\ min_candles_away = BaseMinCandlesAway
    /\ use_di_filter = FALSE
    /\ di_spread_max = DiSpreadMaxDefault
    /\ pc = "idle"
    /\ touch_dates = <<>>
    /\ k = 1
    /\ touch_idx = 0
    /\ entry_idx = None
    /\ setups = <<>>
    /\ returned = <<>>
    /\ NoConnector

detector == <<bars, atr_entry_multiplier, min_candles_away, use_di_filter,
              di_spread_max, pc, touch_dates, k, touch_idx, entry_idx, setups,
              returned>>

\* Lines 306-320: the dataset is loaded (load_processed_data reads its datetime
\* column) and its columns are validated; an exception ends the run with None.
LoadAndValidate ==
    /\ sweep_pc = "start"
    /\ LET missing_columns == required_columns \ df_columns
       IN  IF "datetime" \notin df_columns
           THEN /\ sweep_pc' = "failed"
                /\ failure' = {"datetime"}
           ELSE IF missing_columns # {}
           THEN /\ sweep_pc' = "failed"
                /\ failure' = missing_columns
           ELSE /\ sweep_pc' = "loop"
                /\ failure' = failure
    /\ results' = <<>>
    /\ UNCHANGED <<detector, connvars, start_date, end_date, df, df_columns, atr_range,
                   pos, table, improvement>>

\* Variant of AnalyzeLevel in which recalculate_atr_bands writes the bands
\* into the shared dataset (C19 tells them apart).
AnalyzeLevelInPlace ==
    /\ sweep_pc = "loop"
    /\ pos <= Len(atr_range)
    /\ pos' = pos + 1
    /\ IF analyze_raises(df_columns, atr_range[pos])
       THEN UNCHANGED <<detector, results, df>>
       ELSE \E a \in {analyze_atr_level(df, atr_range[pos], start_date[1], end_date[1])} :
                /\ results' = Append(results, a.metrics)
                /\ df' = a.frame
                /\ bars' = a.frame
                /\ atr_entry_multiplier' = atr_range[pos][1]
                /\ touch_dates' = TouchDates(a.frame, start_date, end_date)
                /\ k' = Len(touch_dates') + 1
                /\ touch_idx' = a.run.touch_idx
                /\ entry_idx' = a.run.entry_idx
                /\ setups' = a.run.setups
                /\ returned' = <<a.run.setups>>
                /\ pc' = "done"
                /\ UNCHANGED <<min_candles_away, use_di_filter, di_spread_max>>
    /\ UNCHANGED <<connvars, start_date, end_date, df_columns, atr_range, sweep_pc,
                   table, improvement, failure>>

\* Variant of AnalyzeLevel in which an analysis that throws ends the sweep
\* (C17 tells them apart).
AnalyzeLevelAbort ==
    /\ sweep_pc = "loop"
    /\ pos <= Len(atr_range)
    /\ IF analyze_raises(df_columns, atr_range[pos])
       THEN /\ sweep_pc' = "failed"
            /\ UNCHANGED <<detector, results, pos>>
       ELSE \E a \in {analyze_atr_level(df, atr_range[pos], start_date[1], end_date[1])} :
                /\ results' = Append(results, a.metrics)
                /\ bars' = a.frame
                /\ atr_entry_multiplier' = atr_range[pos][1]
                /\ touch_dates' = TouchDates(a.frame, start_date, end_date)
                /\ k' = Len(touch_dates') + 1
                /\ touch_idx' = a.run.touch_idx
                /\ entry_idx' = a.run.entry_idx
                /\ setups' = a.run.setups
                /\ returned' = <<a.run.setups>>
                /\ pc' = "done"
                /\ pos' = pos + 1
                /\ sweep_pc' = sweep_pc
                /\ UNCHANGED <<min_candles_away, use_di_filter, di_spread_max>>
    /\ UNCHANGED <<connvars, start_date, end_date, df, df_columns, atr_range,
                   table, improvement, failure>>

\* Lines 322-332: one pass of the loop over atr_range.  analyze_atr_level runs
\* a detector of its own on a banded copy of the dataset; an exception skips
\* the multiplier.
AnalyzeLevel ==
    /\ sweep_pc = "loop"
    /\ pos <= Len(atr_range)
    /\ pos' = pos + 1
    /\ IF analyze_raises(df_columns, atr_range[pos])
       THEN UNCHANGED <<detector, results>>
       ELSE \E a \in {analyze_atr_level(df, atr_range[pos], start_date[1], end_date[1])} :
                /\ results' = Append(results, a.metrics)
                /\ bars' = a.frame
                /\ atr_entry_multiplier' = atr_range[pos][1]
                /\ touch_dates' = TouchDates(a.frame, start_date, end_date)
                /\ k' = Len(touch_dates') + 1
                /\ touch_idx' = a.run.touch_idx
                /\ entry_idx' = a.run.entry_idx
                /\ setups' = a.run.setups
                /\ returned' = <<a.run.setups>>
                /\ pc' = "done"
                /\ UNCHANGED <<min_candles_away, use_di_filter, di_spread_max>>
    /\ UNCHANGED <<connvars, start_date, end_date, df, df_columns, atr_range, sweep_pc,
                   table, improvement, failure>>

\* Variant of Summarize in which the division by a baseline expectancy of 0
\* raises, which the handler of line 351 turns into None (C18 tells them
\* apart).
SummarizeZeroBaselineRaises ==
    /\ sweep_pc = "loop"
    /\ pos > Len(atr_range)
    /\ IF results = <<>>
       THEN /\ sweep_pc' = "failed"
            /\ UNCHANGED <<table, improvement>>
       ELSE \E df_results \in generate_summary_table(results) :
               IF Improvement(df_results) \in {NaN, Inf}
               THEN /\ sweep_pc' = "failed"
                    /\ UNCHANGED <<table, improvement>>
               ELSE /\ table' = Some(df_results)
                    /\ improvement' = Improvement(df_results)
                    /\ sweep_pc' = "done"
    /\ UNCHANGED <<detector, connvars, start_date, end_date, df, df_columns, atr_range,
                   pos, results, failure>>

\* Lines 334-349: without a result the run ends with None; otherwise the table
\* is built, printed, saved and returned.
Summarize ==
    /\ sweep_pc = "loop"
    /\ pos > Len(atr_range)
    /\ IF results = <<>>
       THEN /\ sweep_pc' = "failed"
            /\ UNCHANGED <<table, improvement>>
       ELSE \E df_results \in generate_summary_table(results) :
               /\ table' = Some(df_results)
               /\ improvement' = Improvement(df_results)
               /\ sweep_pc' = "done"
    /\ UNCHANGED <<detector, connvars, start_date, end_date, df, df_columns, atr_range,
                   pos, results, failure>>

SweepNext == LoadAndValidate \/ AnalyzeLevel \/ Summarize

SweepSpec == SweepInit /\ [][SweepNext]_vars

\* ------------------------------------------------------------- MT5Connector

\* config.MT5_LOGIN: no account, the terminal's default account is used.
MT5_LOGIN == None

\* MT5Connector.initialize.  login is None or <<account>>; init_ok and
\* login_ok are the answers of mt5.initialize() and mt5.login(); kept tells
\* whether a session the terminal held survives an mt5.initialize() that
\* fails; result is the value returned.  (mt5.account_info() only reads.)
initialize(login, init_ok, login_ok, kept, result) ==
    IF ~init_ok
    THEN /\ result = "False"
         /\ mt5_calls' = Append(mt5_calls, "initialize")
         /\ session' = (session /\ kept)
         /\ connected' = connected
    ELSE IF login # None /\ ~login_ok
    THEN /\ result = "False"
         /\ mt5_calls' = mt5_calls \o <<"initialize", "login", "shutdown">>
         /\ session' = FALSE
         /\ connected' = connected
    ELSE /\ result = "True"
         /\ mt5_calls' = mt5_calls \o (IF login # None THEN <<"initialize", "login">>
                                       ELSE <<"initialize">>)
         /\ session' = TRUE
         /\ connected' = TRUE

\* MT5Connector.download_historical_data.  rates is what
\* mt5.copy_rates_range answers: None, no rows, or rows; _validate_data only
\* prints.
download_historical_data(rates, result) ==
    IF ~connected
    THEN /\ result = "None"
         /\ UNCHANGED <<connected, session, mt5_calls>>
    ELSE /\ mt5_calls' = Append(mt5_calls, "copy_rates_range")
         /\ result = (IF rates = "rows" THEN "df" ELSE "None")
         /\ UNCHANGED <<connected, session>>

\* MT5Connector.shutdown.
shutdown ==
    IF connected
    THEN /\ mt5_calls' = Append(mt5_calls, "shutdown")
         /\ session' = FALSE
         /\ connected' = FALSE
    ELSE UNCHANGED <<connected, session, mt5_calls>>

\* A connector was constructed: by a client that calls its operations in any
\* order, or by download_data.
ConnInit ==
    /\ connected = FALSE
    /\ session = FALSE
    /\ mt5_calls = <<>>
    /\ calls = <<>>
    /\ dd_pc \in {"off", "try"}
    /\ dd_result = "None"
    /\ bars = <<>>
    /\ atr_entry_multiplier = 0
    /\ min_candles_away = 0
    /\ use_di_filter = FALSE
    /\ di_spread_max = DiSpreadMaxDefault
    /\ start_date = None
    /\ end_date = None
    /\ pc = "idle"
    /\ touch_dates = <<>>
    /\ k = 1
    /\ touch_idx = 0
    /\ entry_idx = None
    /\ setups = <<>>
    /\ returned = <<>>
    /\ df = <<>>
    /\ df_columns = {}
    /\ atr_range = <<>>
    /\ pos = 1
    /\ results = <<>>
    /\ sweep_pc = "off"
    /\ table = None
    /\ improvement = None
    /\ failure = {}

\* The client calls initialize.
Initialize ==
    /\ dd_pc = "off"
    /\ Len(calls) < MaxOps
    /\ \E login \in {None, Some(1)}, init_ok, login_ok, kept \in BOOLEAN,
          result \in {"True", "False"} :
          /\ initialize(login, init_ok, login_ok, kept, result)
          /\ calls' = Append(calls, [op |-> "initialize", result |-> result])
    /\ UNCHANGED <<detector, start_date, end_date, sweepvars, dd_pc, dd_result>>

\* The client calls download_historical_data; a terminal without a session
\* answers no rows.
DownloadHistoricalData ==
    /\ dd_pc = "off"
    /\ Len(calls) < MaxOps
    /\ \E rates \in {"none", "empty", "rows"}, result \in {"None", "df"} :
          /\ rates = "rows" => session
          /\ download_historical_data(rates, result)
          /\ calls' = Append(calls, [op |-> "download_historical_data",
                                     result |-> result])
    /\ UNCHANGED <<detector, start_date, end_date, sweepvars, dd_pc, dd_result>>

\* The client calls shutdown.
Shutdown ==
    /\ dd_pc = "off"
    /\ Len(calls) < MaxOps
    /\ shutdown
    /\ calls' = Append(calls, [op |-> "shutdown", result |-> "None"])
    /\ UNCHANGED <<detector, start_date, end_date, sweepvars, dd_pc, dd_result>>

\* download_data, lines 23-32: the connector is initialized with the
\* configured login; a failure returns None through the finally clause.
DownloadDataInitialize ==
    /\ dd_pc = "try"
    /\ \E init_ok, login_ok, kept \in BOOLEAN, result \in {"True", "False"} :
          /\ initialize(MT5_LOGIN, init_ok, login_ok, kept, result)
          /\ calls' = Append(calls, [op |-> "initialize", result |-> result])
          /\ dd_pc' = IF result = "True" THEN "args" ELSE "finally"
    /\ UNCHANGED <<detector, start_date, end_date, sweepvars, dd_result>>

\* download_data, lines 34-39: the arguments of download_historical_data are
\* evaluated; config has no START_DATE (it defines DATA_START_DATE), so the
\* read raises AttributeError before the call is made.
DownloadDataArguments ==
    /\ dd_pc = "args"
    /\ dd_pc' = "finally"
    /\ dd_result' = "AttributeError"
    /\ UNCHANGED <<detector, start_date, end_date, sweepvars, connected, session,
                   mt5_calls, calls>>

\* download_data, lines 47-48: the finally clause shuts the connector down;
\* then None is returned or the exception goes on to the caller.
DownloadDataFinally ==
    /\ dd_pc = "finally"
    /\ shutdown
    /\ calls' = Append(calls, [op |-> "shutdown", result |-> "None"])
    /\ dd_pc' = "returned"
    /\ UNCHANGED <<detector, start_date, end_date, sweepvars, dd_result>>

ConnNext ==
    \/ Initialize
    \/ DownloadHistoricalData
    \/ Shutdown
    \/ DownloadDataInitialize
    \/ DownloadDataArguments
    \/ DownloadDataFinally

ConnSpec == ConnInit /\ [][ConnNext]_vars

\* ------------------------------------------------- vocabulary of the claims
\* The conditions of the specification, written out on the bar columns.

IsTouch(b) == b.low <= b.ema20 /\ b.ema20 <= b.high

StopCond(b, direction, stop) ==
    \/ direction = "LONG" /\ b.low <= stop
    \/ direction = "SHORT" /\ b.high >= stop

BandCond(b, direction) ==
    \/ direction = "LONG" /\ b.low <= b.atr_lower_entry
    \/ direction = "SHORT" /\ b.high >= b.atr_upper_entry

Spread(b) ==
    IF b.plus_di >= b.minus_di THEN b.plus_di - b.minus_di
    ELSE b.minus_di - b.plus_di

Directions == {"LONG", "SHORT"}

SetupSet == {setups[i] : i \in DOMAIN setups}

Closed(s) == s.outcome \in {"WIN", "LOSS"}

\* The position of the bar with timestamp d (timestamps are strictly increasing).
PosOf(d) == CHOOSE i \in DOMAIN bars : bars[i].datetime = d

TouchPos(s) == PosOf(s.touch_date)
EntryPos(s) == PosOf(s.entry_date)
ExitPos(s) == PosOf(s.exit_date[1])

\* The unrounded entry and stop price of a Setup: the bands of its entry bar.
EntryBandOf(s) ==
    IF s.direction = "LONG" THEN bars[EntryPos(s)].atr_lower_entry
    ELSE bars[EntryPos(s)].atr_upper_entry

StopBandOf(s) ==
    IF s.direction = "LONG" THEN bars[EntryPos(s)].atr_lower_3
    ELSE bars[EntryPos(s)].atr_upper_3

\* Neither exit condition holds on the bars from..to of the trade of s.
NothingFires(s, from, to) ==
    \A j \in from..to :
        ~StopCond(bars[j], s.direction, StopBandOf(s)) /\ ~IsTouch(bars[j])

\* The first bar an entry scan looks at: touchIndex + max(1, minCandlesAway).
ScanStart(t) == t + (IF min_candles_away >= 1 THEN min_candles_away ELSE 1)

\* A step of detect_all_setups that completes the entry scan of a direction.
ScanStep(direction) ==
    IF direction = "LONG" THEN pc = "long" /\ pc' # "long"
    ELSE pc = "short" /\ pc' # "short"

\* -------------------------------------------------------------------- C1
\* C1: stop-loss precedence.  When the first bar at or after the entry bar on
\* which an exit condition holds satisfies both the stop-loss and the
\* take-profit condition, the Setup is a LOSS closed on that bar; and the
\* stop-loss condition is false at the exit bar of every WIN.
C1_StopPrecedence ==
    \A s \in SetupSet :
        /\ \A i \in EntryPos(s)..Len(bars) :
              ( /\ StopCond(bars[i], s.direction, StopBandOf(s))
                /\ IsTouch(bars[i])
                /\ NothingFires(s, EntryPos(s), i - 1) )
              => (s.outcome = "LOSS" /\ s.exit_date = Some(bars[i].datetime))
        /\ s.outcome = "WIN"
              => ~StopCond(bars[ExitPos(s)], s.direction, StopBandOf(s))

\* A LOSS closed, after the entry bar, on a bar that also touches the average.
C1_Witness ==
    \E s \in SetupSet :
        /\ s.outcome = "LOSS"
        /\ ExitPos(s) > EntryPos(s)
        /\ IsTouch(bars[ExitPos(s)])
        /\ StopCond(bars[ExitPos(s)], s.direction, StopBandOf(s))

\* -------------------------------------------------------------------- C2
\* C2: every Setup has its entry bar after its touch bar, and no bar strictly
\* between the two satisfies the touch condition.
C2_EntryAfterTouch ==
    \A s \in SetupSet :
        /\ EntryPos(s) > TouchPos(s)
        /\ \A j \in (TouchPos(s) + 1)..(EntryPos(s) - 1) : ~IsTouch(bars[j])

\* A Setup entered two or more bars after its touch, with a drift requirement
\* of two bars and the directional filter on.
C2_Witness ==
    /\ min_candles_away = 2
    /\ use_di_filter
    /\ \E s \in SetupSet : EntryPos(s) >= TouchPos(s) + 3

\* -------------------------------------------------------------------- C3
\* C3: the touches reported are exactly the bars of the analysis window with
\* low <= ema <= high, in ascending order, and each is resolved to the
\* position of that same bar in the full series.
C3_TouchScanner ==
    pc # "idle" =>
        /\ \A i \in DOMAIN bars :
              ( /\ start_date # None => bars[i].datetime >= start_date[1]
                /\ end_date # None => bars[i].datetime <= end_date[1]
                /\ IsTouch(bars[i]) )
              <=> (\E j \in DOMAIN touch_dates : touch_dates[j] = bars[i].datetime)
        /\ \A j \in DOMAIN touch_dates :
              j > 1 => PosOf(touch_dates[j - 1]) < PosOf(touch_dates[j])
        /\ pc \in {"long", "short"} =>
              /\ touch_idx \in DOMAIN bars
              /\ bars[touch_idx].datetime = touch_dates[k]

\* The second touch of a window that leaves a touching first bar outside is
\* being scanned.
C3_Witness ==
    /\ pc = "long"
    /\ start_date # None
    /\ k = 2
    /\ IsTouch(bars[1])
    /\ IsTouch(bars[NBars])

\* -------------------------------------------------------------------- C4
\* The entry the specification prescribes for touch position t and a direction:
\* the first bar from ScanStart(t) on that passes the directional filter and
\* crosses its band, unless that bar or one before it (from ScanStart(t))
\* re-touches the average.
SpecEntry(t, direction) ==
    LET Q == {i \in ScanStart(t)..Len(bars) :
                 /\ (use_di_filter => Spread(bars[i]) < di_spread_max)
                 /\ BandCond(bars[i], direction)}
    IN  IF Q = {} THEN None
        ELSE LET i == CHOOSE x \in Q : \A y \in Q : x <= y
             IN  IF \E j \in ScanStart(t)..i : IsTouch(bars[j]) THEN None
                 ELSE Some(i)

\* C4: every entry scan returns SpecEntry: the smallest qualifying index that
\* no re-touch precedes, and not found otherwise.
C4_EntryScanner ==
    [][\A d \in Directions : ScanStep(d) => entry_idx' = SpecEntry(touch_idx, d)]_vars

\* A LONG scan that passed over the first bar it looked at and found an entry.
C4_Witness ==
    /\ pc = "short"
    /\ entry_idx # None
    /\ entry_idx[1] > ScanStart(touch_idx)

\* -------------------------------------------------------------------- C5
\* A bar the filtered scan may enter on.
Enterable(i, direction) ==
    /\ ~IsTouch(bars[i])
    /\ Spread(bars[i]) < di_spread_max
    /\ BandCond(bars[i], direction)

\* C5: with the directional filter on, an entry bar always has a spread below
\* spreadMax; bars skipped for their spread do not end the scan: the first
\* enterable bar that no re-touch precedes is the entry, and without one the
\* scan finds nothing and appends no Setup.
C5_FilterSkips ==
    [][use_di_filter =>
        \A d \in Directions : ScanStep(d) =>
            LET from == ScanStart(touch_idx)
                Reached(i) == \A j \in from..i : ~IsTouch(bars[j])
            IN  /\ entry_idx' # None => Spread(bars[entry_idx'[1]]) < di_spread_max
                /\ \A i \in from..Len(bars) :
                      ( /\ Enterable(i, d)
                        /\ Reached(i)
                        /\ \A j \in from..(i - 1) : ~Enterable(j, d) )
                      => entry_idx' = Some(i)
                /\ (~\E i \in from..Len(bars) : Enterable(i, d) /\ Reached(i))
                      => (entry_idx' = None /\ setups' = setups)]_vars

\* With the filter on, a LONG scan entered after skipping a bar that crosses
\* the band with a spread of spreadMax or more.
C5_Witness ==
    /\ use_di_filter
    /\ pc = "short"
    /\ entry_idx # None
    /\ \E j \in ScanStart(touch_idx)..(entry_idx[1] - 1) :
          /\ Spread(bars[j]) >= di_spread_max
          /\ BandCond(bars[j], "LONG")

\* -------------------------------------------------------------------- C6
\* C6: a Setup whose entry bar satisfies the stop-loss condition is closed on
\* the entry bar: LOSS, exit timestamp = entry timestamp, bars-held 0.
C6_EntryBarCloses ==
    \A s \in SetupSet :
        StopCond(bars[EntryPos(s)], s.direction, StopBandOf(s)) =>
            /\ s.outcome = "LOSS"
            /\ s.exit_date = Some(s.entry_date)
            /\ s.candles_held = 0

\* A Setup of an ATR_RANGE multiplier stopped out on its entry bar.
C6_Witness ==
    /\ atr_entry_multiplier < AtrStopMultiplier
    /\ \E s \in SetupSet :
          /\ StopCond(bars[EntryPos(s)], s.direction, StopBandOf(s))
          /\ s.candles_held = 0

\* -------------------------------------------------------------------- C7
\* C7: every LOSS has exit price = stop price of the entry bar, realized pips
\* (stop - entry) x pipFactor for LONG and (entry - stop) x pipFactor for
\* SHORT (to the tenth of a pip the code keeps), and these pips are negative,
\* whatever the entry multiplier.
C7_LossPips ==
    \A s \in SetupSet :
        s.outcome = "LOSS" =>
            /\ s.exit_price = Some(s.sl_price)
            /\ s.sl_price = Round5(StopBandOf(s))
            /\ s.result_pips =
                  (IF s.direction = "LONG"
                   THEN PipsOf(StopBandOf(s) - EntryBandOf(s))
                   ELSE PipsOf(EntryBandOf(s) - StopBandOf(s)))
            /\ s.result_pips < 0

\* -------------------------------------------------------------------- C8
\* C8: every WIN has as exit price the average of its exit bar (to the five
\* decimals a Setup keeps) and as realized pips (exitEma - entry) x pipFactor
\* for LONG, (entry - exitEma) x pipFactor for SHORT (to the tenth of a pip).
C8_WinPips ==
    \A s \in SetupSet :
        s.outcome = "WIN" =>
            /\ s.exit_price = Some(Round5(bars[ExitPos(s)].ema20))
            /\ s.result_pips =
                  (IF s.direction = "LONG"
                   THEN PipsOf(bars[ExitPos(s)].ema20 - EntryBandOf(s))
                   ELSE PipsOf(EntryBandOf(s) - bars[ExitPos(s)].ema20))

\* A WIN whose exit bar has another average than its entry bar.
C8_Witness ==
    \E s \in SetupSet :
        /\ s.outcome = "WIN"
        /\ bars[ExitPos(s)].ema20 # bars[EntryPos(s)].ema20
        /\ Round5(bars[ExitPos(s)].ema20) # s.tp_price_ref

\* -------------------------------------------------------------------- C9
\* C9: the outcome of a Setup is WIN, LOSS or OPEN; exit timestamp and exit
\* price are set exactly when it is WIN or LOSS; an OPEN Setup has neither and
\* realized pips 0.
C9_ExitIffClosed ==
    \A s \in SetupSet :
        /\ s.outcome \in {"WIN", "LOSS", "OPEN"}
        /\ s.exit_date # None <=> Closed(s)
        /\ s.exit_price # None <=> Closed(s)
        /\ s.outcome = "OPEN" =>
              (s.exit_date = None /\ s.exit_price = None /\ s.result_pips = 0)

\* A finished run that produced a closed and an OPEN Setup.
C9_Witness ==
    /\ pc = "done"
    /\ \E s \in SetupSet : Closed(s)
    /\ \E s \in SetupSet : s.outcome = "OPEN"

\* -------------------------------------------------------------------- C10
\* A Setup is accepted for touch position t and a direction when the
\* specification's entry exists and lies inside the analysis window.
SpecAccepted(t, direction) ==
    /\ SpecEntry(t, direction) # None
    /\ LET d == bars[SpecEntry(t, direction)[1]].datetime
       IN  /\ start_date # None => d >= start_date[1]
           /\ end_date # None => d <= end_date[1]

\* C10: a touch has at most one LONG and at most one SHORT Setup, and the scan
\* of a direction appends a Setup exactly when that direction's own entry is
\* accepted, with that direction, touch and entry: nothing the other
\* direction's scan left behind (entry_idx, the Setups appended so far) enters.
C10_Independent ==
    /\ [](\A d \in Directions : \A i, j \in DOMAIN setups :
            ( /\ setups[i].touch_date = setups[j].touch_date
              /\ setups[i].direction = d
              /\ setups[j].direction = d ) => i = j)
    /\ [][\A d \in Directions : ScanStep(d) =>
            IF SpecAccepted(touch_idx, d)
            THEN /\ Len(setups') = Len(setups) + 1
                 /\ SubSeq(setups', 1, Len(setups)) = setups
                 /\ LET s == setups'[Len(setups')]
                    IN  /\ s.direction = d
                        /\ s.touch_date = bars[touch_idx].datetime
                        /\ s.entry_date = bars[SpecEntry(touch_idx, d)[1]].datetime
                        /\ s = create_setup(bars, touch_idx, SpecEntry(touch_idx, d)[1], d)
            ELSE setups' = setups]_vars

\* One touch with a LONG and a SHORT Setup, entered on different bars.
C10_Witness ==
    \E i, j \in DOMAIN setups :
        /\ setups[i].touch_date = setups[j].touch_date
        /\ setups[i].direction = "LONG"
        /\ setups[j].direction = "SHORT"
        /\ setups[i].entry_date # setups[j].entry_date

\* -------------------------------------------------------------------- C11
\* C11: detect_all_setups run again on the same instance, series and
\* parameters returns the same Setups in the same order: every list returned
\* equals the first one (nothing of an earlier run accumulates), and no step
\* of a run changes the input series.
C11_Idempotent ==
    /\ [](\A i \in DOMAIN returned : returned[i] = returned[1])
    /\ [][bars' = bars]_vars

\* The second run on an instance returned, and the runs found two Setups or
\* more.
C11_Witness ==
    /\ Len(returned) = 2
    /\ Len(returned[1]) >= 2
    /\ pc = "done"

\* -------------------------------------------------------------------- C12
\* C12: with minCandlesAway > 0, a touch followed by a re-touch on one of its
\* first minCandlesAway bars has no Setup, in either direction.
C12_RetouchRejects ==
    min_candles_away > 0 =>
        \A t \in DOMAIN bars :
            ( /\ IsTouch(bars[t])
              /\ \E j \in (t + 1)..(t + min_candles_away) :
                    j <= Len(bars) /\ IsTouch(bars[j]) )
            => \A s \in SetupSet : s.touch_date # bars[t].datetime

\* A finished run with a drift requirement of two bars over a series whose
\* first bar touches, whose second bar re-touches and whose third bar crosses
\* the LONG entry band without touching.
C12_Witness ==
    /\ pc = "done"
    /\ min_candles_away = 2
    /\ ~use_di_filter
    /\ start_date = None
    /\ IsTouch(bars[1])
    /\ IsTouch(bars[2])
    /\ ~IsTouch(bars[3])
    /\ BandCond(bars[3], "LONG")

\* -------------------------------------------------------------------- C13
\* The touch the loop of the run is about to take up has fewer than
\* minCandlesAway bars after it, none of which re-touches the average.
ShortTail ==
    /\ pc = "loop"
    /\ k <= Len(touch_dates)
    /\ min_candles_away > 0
    /\ LET t == PosOf(touch_dates[k])
       IN  /\ Len(bars) - t < min_candles_away
           /\ \A j \in (t + 1)..Len(bars) : ~IsTouch(bars[j])

\* C13 as stated: such a touch is treated as valid by the run, which goes on to
\* scan it for entries.
C13_ShortTailValid ==
    [][ShortTail => pc' = "long"]_vars

\* C13 as the code has it: for such a touch the validator answers valid with
\* candlesObserved = the number of bars that remained, and the run rejects the
\* touch all the same (candlesObserved < minCandlesAway): it moves on to the
\* next touch without an entry scan, and the touch never has a Setup.
C13_ShortTailRejected ==
    /\ [][ShortTail =>
            LET t == PosOf(touch_dates[k])
            IN  /\ verify_price_moved_away(bars, t, min_candles_away)
                       = <<TRUE, Len(bars) - t>>
                /\ pc' = "loop"
                /\ k' = k + 1
                /\ setups' = setups]_vars
    /\ [](min_candles_away > 0 =>
            \A t \in DOMAIN bars :
                ( /\ Len(bars) - t < min_candles_away
                  /\ \A j \in (t + 1)..Len(bars) : ~IsTouch(bars[j]) )
                => \A s \in SetupSet : s.touch_date # bars[t].datetime)

\* A finished run with a drift requirement of two bars whose last but one bar
\* touched and whose last bar did not.
C13_Witness ==
    /\ pc = "done"
    /\ min_candles_away = 2
    /\ start_date = None
    /\ IsTouch(bars[NBars - 1])
    /\ ~IsTouch(bars[NBars])

\* --------------------------------------- vocabulary of the claims, the sweep

\* The row analyze_atr_level returned last; `setups` is then the Setup
\* collection it was computed from.
LastRow == results[Len(results)]

\* The sum of the realized pips of the Setups S[1..n] with outcome o.
RECURSIVE OutcomePips(_, _, _)
OutcomePips(S, n, o) ==
    IF n = 0 THEN 0
    ELSE OutcomePips(S, n - 1, o)
         + (IF S[n].outcome = o THEN S[n].result_pips ELSE 0)

OutcomeCount(S, o) == Cardinality({i \in DOMAIN S : S[i].outcome = o})

\* A quotient <<n, d>> that is the number 0, and one that is a number at all.
IsZero(q) == q[1] = 0 /\ q[2] # 0
IsFinite(q) == q[2] # 0

\* a >= b for finite quotients with positive denominators.
AtLeast(a, b) == a[1] * b[2] >= b[1] * a[2]

\* A pass of the loop of optimize_atr_levels over atr_range.
AnalyzeStep == sweep_pc = "loop" /\ pos' = pos + 1

\* The analysis of the entry at position j of atr_range throws: the entry is no
\* number, or the dataset lacks a price column the detector reads.
Throws(j) ==
    \/ atr_range[j] = None
    \/ "low" \notin df_columns
    \/ "high" \notin df_columns

\* The levels among atr_range[1..n] whose analysis does not throw, in order.
RECURSIVE Survivors(_)
Survivors(n) ==
    IF n = 0 THEN <<>>
    ELSE IF Throws(n) THEN Survivors(n - 1)
    ELSE Append(Survivors(n - 1), atr_range[n][1])

LevelsOf(rows) == [i \in DOMAIN rows |-> rows[i].atr_level]

CountOf(seq, v) == Cardinality({i \in DOMAIN seq : seq[i] = v})

\* -------------------------------------------------------------------- C14
\* C14: the profit factor of a Setup collection is sum(winPips) /
\* |sum(lossPips)|; it is +infinity whenever the losing pips sum to zero
\* (no losing trade, no closed trade and no Setup included), and a finite
\* non-negative number otherwise.
C14_ProfitFactor ==
    results # <<>> =>
        LET W == OutcomePips(setups, Len(setups), "WIN")
            L == OutcomePips(setups, Len(setups), "LOSS")
            pf == LastRow.profit_factor
        IN  IF L = 0
            THEN pf[2] = 0 /\ pf[1] > 0
            ELSE /\ pf[2] # 0
                 /\ pf[1] * (IF L < 0 THEN -L ELSE L) = W * pf[2]
                 /\ pf[1] >= 0

\* -------------------------------------------------------------------- C15
\* C15: degenerate statistics are no error.  The analysis of a numeric
\* multiplier on a complete dataset returns a row; without a closed Setup its
\* win and loss counts, win rate, expectancy and trades-per-year are 0;
\* without a LOSS its loss count, average loss and drawdown are 0; with a
\* window that ends at or before its start it has no trade and
\* trades-per-year 0; and no quotient of a row has a zero denominator, except
\* the profit factor that is +infinity.
C15_Degenerate ==
    /\ [][(AnalyzeStep /\ atr_range[pos] # None /\ df_columns = AllColumns)
            => Len(results') = Len(results) + 1]_vars
    /\ [](results # <<>> =>
            LET r == LastRow
                closed == OutcomeCount(setups, "WIN") + OutcomeCount(setups, "LOSS")
            IN  /\ closed = 0 =>
                      /\ r.win_trades = 0
                      /\ r.loss_trades = 0
                      /\ IsZero(r.win_rate)
                      /\ IsZero(r.expectancy)
                      /\ IsZero(r.trades_per_year)
                /\ OutcomeCount(setups, "LOSS") = 0 =>
                      /\ r.loss_trades = 0
                      /\ IsZero(r.avg_loss_pips)
                      /\ r.max_drawdown = 0
                /\ end_date[1] <= start_date[1] =>
                      /\ setups = <<>>
                      /\ r.total_trades = 0
                      /\ IsZero(r.trades_per_year)
                /\ IsFinite(r.win_rate)
                /\ IsFinite(r.avg_win_pips)
                /\ IsFinite(r.avg_loss_pips)
                /\ IsFinite(r.expectancy)
                /\ IsFinite(r.trades_per_year)
                /\ r.profit_factor[2] = 0 => r.profit_factor = <<1, 0>>)

\* After an analysis that found no Setup, an analysis returned a row for a run
\* that found Setups, all of them OPEN.
C15_Witness ==
    /\ Len(results) = 2
    /\ results[1].total_trades = 0
    /\ IsZero(results[1].trades_per_year)
    /\ setups # <<>>
    /\ \A i \in DOMAIN setups : setups[i].outcome = "OPEN"
    /\ LastRow.total_trades = Len(setups)

\* -------------------------------------------------------------------- C16
\* C16: the table of a sweep carries the rankings 1..n in row order, and a row
\* with a smaller ranking has an expectancy at least as large: the top row's
\* expectancy is at least every other row's.
C16_Ranked ==
    table # None =>
        LET t == table[1]
        IN  /\ \A i \in DOMAIN t : t[i].ranking = i
            /\ \A i, j \in DOMAIN t :
                  t[i].ranking < t[j].ranking => AtLeast(t[i].expectancy, t[j].expectancy)
            /\ \A j \in DOMAIN t : AtLeast(t[1].expectancy, t[j].expectancy)

\* A table whose top row was analysed after a row of smaller expectancy.
C16_Witness ==
    /\ table # None
    /\ Len(results) = 2
    /\ ~AtLeast(results[1].expectancy, results[2].expectancy)
    /\ table[1][1].atr_level = results[2].atr_level

\* -------------------------------------------------------------------- C17
\* C17: an analysis that throws does not end the sweep.  The loop passes over
\* every entry of atr_range; the results hold one row for each entry passed
\* whose analysis did not throw, in list order; and the table holds exactly
\* one row for each such entry and none for an entry whose analysis threw.
C17_FailureIsolated ==
    /\ sweep_pc \in {"loop", "done"} =>
          /\ pos <= Len(atr_range) + 1
          /\ LevelsOf(results) = Survivors(pos - 1)
    /\ (sweep_pc = "done" \/ (sweep_pc = "failed" /\ failure = {})) =>
          pos = Len(atr_range) + 1
    /\ table # None =>
          /\ Len(table[1]) = Len(Survivors(Len(atr_range)))
          /\ \A j \in DOMAIN atr_range :
                ~Throws(j) =>
                    CountOf(LevelsOf(table[1]), atr_range[j][1])
                        = CountOf(Survivors(Len(atr_range)), atr_range[j][1])

\* A sweep returned a table of one row for a list whose first entry threw.
C17_Witness ==
    /\ sweep_pc = "done"
    /\ Len(atr_range) = 2
    /\ atr_range[1] = None
    /\ atr_range[2] # None
    /\ Len(table[1]) = 1

\* -------------------------------------------------------------------- C18
\* C18: on a dataset that passes validation, the sweep returns the table when
\* at least one analysis returned a row and None only when none did; a
\* baseline row of expectancy 0 and rows without any trade change nothing.
C18_SucceedsWithResults ==
    (sweep_pc \in {"done", "failed"} /\ failure = {}) =>
        /\ results # <<>> => (sweep_pc = "done" /\ table # None)
        /\ results = <<>> => (sweep_pc = "failed" /\ table = None)

\* A sweep returned a table whose baseline row has expectancy 0 and whose rows
\* have no trade.
C18_Witness ==
    /\ sweep_pc = "done"
    /\ table # None
    /\ improvement = <<0, 0>>
    /\ \A i \in DOMAIN results : results[i].total_trades = 0

\* -------------------------------------------------------------------- C19
\* C19: sweep runs are independent.  The frame a run's detector works on is
\* the dataset with entry bands ema -/+ level x atr and stop bands ema -/+
\* 3.0 x atr; no run changes the dataset; and the rows of one level are the
\* same wherever in the list the level stands.
C19_Independent ==
    /\ [][df' = df]_vars
    /\ [](bars # <<>> =>
            /\ Len(bars) = Len(df)
            /\ \A i \in DOMAIN bars :
                  /\ bars[i].datetime = df[i].datetime
                  /\ bars[i].low = df[i].low
                  /\ bars[i].high = df[i].high
                  /\ bars[i].ema20 = df[i].ema20
                  /\ bars[i].atr = df[i].atr
                  /\ bars[i].atr_lower_entry
                        = df[i].ema20 - (df[i].atr * atr_entry_multiplier) \div 10
                  /\ bars[i].atr_upper_entry
                        = df[i].ema20 + (df[i].atr * atr_entry_multiplier) \div 10
                  /\ bars[i].atr_lower_3 = df[i].ema20 - 3 * df[i].atr
                  /\ bars[i].atr_upper_3 = df[i].ema20 + 3 * df[i].atr)
    /\ [](\A i, j \in DOMAIN results :
            results[i].atr_level = results[j].atr_level => results[i] = results[j])

\* Two runs of one level, the second after a run of the same dataset, both
\* with closed trades.
C19_Witness ==
    /\ Len(results) = 2
    /\ results[1].atr_level = results[2].atr_level
    /\ results[2].total_trades > 0
    /\ results[2].win_trades > 0

\* -------------------------------------------------------------------- C20
\* C20: a dataset that lacks one of the columns datetime, open, high, low,
\* close, ema, atr, adx, plus_di, minus_di, rsi fails the whole run at
\* validation with an error that names the column: no multiplier is analysed
\* and nothing is returned.
C20_MissingColumnFails ==
    (AllColumns \ df_columns # {}) =>
        /\ sweep_pc \in {"start", "failed"}
        /\ results = <<>>
        /\ table = None
        /\ sweep_pc = "failed" => (AllColumns \ df_columns) \subseteq failure

\* -------------------------------------------------------------------- C21
\* The timestamps of the series are strictly increasing.
Ordered == \A i \in 1..(Len(bars) - 1) : bars[i].datetime < bars[i + 1].datetime

\* C21: a series whose timestamps repeat or are not increasing fails the run:
\* the run resolves no touch timestamp that several bars share, and it
\* produces no Setup.
C21_BadTimestampsFail ==
    ~Ordered =>
        /\ pc \in {"long", "short"} =>
              Cardinality({i \in DOMAIN bars :
                              bars[i].datetime = bars[touch_idx].datetime}) = 1
        /\ setups = <<>>
        /\ returned = <<>>

\* -------------------------------------------------------------------- C22
\* The stop distance of a Setup: |entry price - stop price| of its entry bar.
StopDistanceOf(s) ==
    IF EntryBandOf(s) >= StopBandOf(s) THEN EntryBandOf(s) - StopBandOf(s)
    ELSE StopBandOf(s) - EntryBandOf(s)

\* C22: the realized reward:risk of a Setup is non-null exactly when its
\* outcome is WIN or LOSS; it then is |realizedPips| / (stopDistance x
\* pipFactor), to the hundredth the code keeps (the quotient by a stop
\* distance of 0 being NaN or +infinity); and with a stop distance of 0 the
\* Setup is built with an estimated reward:risk of 0.
C22_RewardRisk ==
    \A s \in SetupSet :
        LET sd == StopDistanceOf(s)
            p == IF s.result_pips < 0 THEN -s.result_pips ELSE s.result_pips
        IN  /\ s.rr_ratio_real # None <=> Closed(s)
            /\ (s.rr_ratio_real # None /\ sd > 0) =>
                  s.rr_ratio_real = Some(RoundDiv(p * 10000000, sd * 10000))
            /\ (s.rr_ratio_real # None /\ sd = 0) =>
                  s.rr_ratio_real = (IF p = 0 THEN <<0, 0>> ELSE <<1, 0>>)
            /\ sd = 0 => s.rr_ratio_estimated = 0

\* -------------------------------------------------------------------- C23
\* C23: bars-held of a closed Setup is exitIndex - entryIndex, which is >= 0
\* and 0 exactly when the trade closes on its entry bar; bars-held of an OPEN
\* Setup is the number of bars from its entry bar through the last bar.
C23_BarsHeld ==
    \A s \in SetupSet :
        /\ Closed(s) =>
              /\ s.candles_held = ExitPos(s) - EntryPos(s)
              /\ s.candles_held >= 0
              /\ s.candles_held = 0 <=> s.exit_date = Some(s.entry_date)
        /\ s.outcome = "OPEN" =>
              s.candles_held = Cardinality(EntryPos(s)..Len(bars))

\* A finished run with a Setup closed on its entry bar, and an OPEN Setup that
\* was entered before the last bar.
C23_Witness ==
    /\ pc = "done"
    /\ \E s \in SetupSet : Closed(s) /\ s.candles_held = 0
    /\ \E s \in SetupSet : s.outcome = "OPEN" /\ EntryPos(s) < Len(bars)

\* -------------------------------------------------------------------- C24
\* C24: a Setup is closed on the earliest bar at or after its entry bar on
\* which the stop-loss or the take-profit condition holds.  The condition of
\* its outcome holds on the exit bar, neither holds on a bar from the entry bar
\* up to the exit bar, and the Setup is OPEN exactly when neither holds on any
\* bar from the entry bar to the end of the series.
C24_EarliestExit ==
    \A s \in SetupSet :
        /\ s.outcome = "LOSS" =>
              StopCond(bars[ExitPos(s)], s.direction, StopBandOf(s))
        /\ s.outcome = "WIN" => IsTouch(bars[ExitPos(s)])
        /\ Closed(s) =>
              /\ ExitPos(s) >= EntryPos(s)
              /\ NothingFires(s, EntryPos(s), ExitPos(s) - 1)
        /\ s.outcome = "OPEN" <=> NothingFires(s, EntryPos(s), Len(bars))

\* A Setup closed on the last bar of the series, two bars after its entry bar.
C24_Witness ==
    \E s \in SetupSet :
        /\ Closed(s)
        /\ ExitPos(s) = Len(bars)
        /\ ExitPos(s) >= EntryPos(s) + 2

\* -------------------------------------------------------------------- C25
\* C25: no Setup is a WIN with bars-held 0.  The entry bar of a Setup never
\* satisfies the touch condition, so a trade that closes on its entry bar is a
\* LOSS, and every WIN exits on a bar after its entry bar.
C25_NoWinOnEntryBar ==
    \A s \in SetupSet :
        /\ ~IsTouch(bars[EntryPos(s)])
        /\ s.outcome = "WIN" => (s.candles_held > 0 /\ ExitPos(s) > EntryPos(s))
        /\ (Closed(s) /\ s.exit_date = Some(s.entry_date)) => s.outcome = "LOSS"

\* A finished run over a series with a WIN closed one bar after its entry,
\* whose last bar, next to a touch, touches the average and reaches the LONG
\* entry band short of the stop band.
C25_Witness ==
    /\ pc = "done"
    /\ min_candles_away = 0
    /\ end_date = None
    /\ \E s \in SetupSet : s.outcome = "WIN" /\ s.candles_held = 1
    /\ IsTouch(bars[NBars - 1])
    /\ IsTouch(bars[NBars])
    /\ BandCond(bars[NBars], "LONG")
    /\ bars[NBars].low > bars[NBars].atr_lower_3

\* -------------------------------------------------------------------- C26
\* A timestamp inside the analysis window [start, end] of the run.
InsideWindow(d) ==
    /\ start_date # None => d >= start_date[1]
    /\ end_date # None => d <= end_date[1]

\* C26: every Setup of a run has its touch timestamp and its entry timestamp
\* inside the analysis window, and an entry scan that finds its entry on a bar
\* outside the window appends no Setup.  (The exit of a Setup is not bound by
\* the window: the witness has one after the window's end.)
C26_InsideWindow ==
    /\ [](\A s \in SetupSet :
            InsideWindow(s.touch_date) /\ InsideWindow(s.entry_date))
    /\ [][\A d \in Directions :
            ( /\ ScanStep(d)
              /\ entry_idx' # None
              /\ ~InsideWindow(bars[entry_idx'[1]].datetime) )
            => setups' = setups]_vars

\* A run with a window whose Setup was closed on a bar after the window's end.
C26_Witness ==
    /\ pc = "done"
    /\ end_date # None
    /\ \E s \in SetupSet :
          /\ s.exit_date # None
          /\ s.exit_date[1] > end_date[1]
          /\ s.entry_date <= end_date[1]

\* -------------------------------------------------------------------- C27
\* C27: in one run no two Setups share their entry bar.  The touch of a Setup
\* is the latest touching bar before its entry bar, the LONG and the SHORT
\* Setup of one touch are entered on different bars, and the list is ordered
\* by ascending touch index, LONG before SHORT for one touch.
C27_OneSetupPerEntryBar ==
    /\ \A i, j \in DOMAIN setups :
          i # j => setups[i].entry_date # setups[j].entry_date
    /\ \A s \in SetupSet :
          /\ IsTouch(bars[TouchPos(s)])
          /\ TouchPos(s) < EntryPos(s)
          /\ \A t \in DOMAIN bars :
                (t < EntryPos(s) /\ IsTouch(bars[t])) => t <= TouchPos(s)
    /\ \A i, j \in DOMAIN setups :
          i < j =>
              \/ TouchPos(setups[i]) < TouchPos(setups[j])
              \/ /\ TouchPos(setups[i]) = TouchPos(setups[j])
                 /\ setups[i].direction = "LONG"
                 /\ setups[j].direction = "SHORT"

\* A finished run with Setups of two touches, one LONG and one SHORT.
C27_Witness ==
    /\ pc = "done"
    /\ \E i, j \in DOMAIN setups :
          /\ i < j
          /\ setups[i].touch_date # setups[j].touch_date
          /\ setups[i].direction # setups[j].direction

\* -------------------------------------------------------------------- C28
\* C28: in every row analyze_atr_level returns, the trade count is the win
\* count plus the loss count, the number of closed Setups of the run, whatever
\* mix of WIN, LOSS and OPEN Setups the run produced.
C28_TradeCount ==
    /\ \A i \in DOMAIN results :
          results[i].total_trades = results[i].win_trades + results[i].loss_trades
    /\ results # <<>> =>
          LastRow.total_trades
              = OutcomeCount(setups, "WIN") + OutcomeCount(setups, "LOSS")

\* -------------------------------------------------------------------- C29
\* round(diff x factor, 1) for a price difference, in tenths of a pip.
PipsBy(diff, factor) == RoundDiv(diff * factor * 10, 1000000)

\* The symbols traded: the symbol of main.py, the same in lower case, and the
\* symbol of the sweep.
TradedSymbols == {SYMBOL, <<"u", "s", "d", "j", "p", "y">>, SweepSymbol}

\* C29: the pip factor applied to the stop distance, the realized pips and the
\* realized reward:risk of a Setup is get_pip_factor of the traded symbol: 100
\* for the listed JPY pairs in any case of letters, 10000 for any other
\* symbol.
C29_PipFactor ==
    \A symbol \in TradedSymbols :
        LET f == get_pip_factor(symbol)
        IN  /\ f = (IF symbol \in {SYMBOL, <<"u", "s", "d", "j", "p", "y">>}
                    THEN 100 ELSE 10000)
            /\ \A s \in SetupSet :
                  /\ s.sl_pips = PipsBy(StopDistanceOf(s), f)
                  /\ s.outcome = "LOSS" =>
                        s.result_pips =
                            (IF s.direction = "LONG"
                             THEN PipsBy(StopBandOf(s) - EntryBandOf(s), f)
                             ELSE PipsBy(EntryBandOf(s) - StopBandOf(s), f))
                  /\ s.outcome = "WIN" =>
                        s.result_pips =
                            (IF s.direction = "LONG"
                             THEN PipsBy(bars[ExitPos(s)].ema20 - EntryBandOf(s), f)
                             ELSE PipsBy(EntryBandOf(s) - bars[ExitPos(s)].ema20, f))

\* -------------------------------------------------------------------- C30
\* The step completes the operation op on the connector, with answer a.
Completes(op, a) ==
    /\ Len(calls') = Len(calls) + 1
    /\ calls'[Len(calls')].op = op
    /\ calls'[Len(calls')].result = a

\* The step made the MetaTrader5 call c.
Makes(c) ==
    \E i \in (Len(mt5_calls) + 1)..Len(mt5_calls') : mt5_calls'[i] = c

\* C30: the connection lifecycle of MT5Connector.  connected becomes true
\* only by an initialize that succeeds; after an initialize that fails
\* (mt5.initialize or the login) connected is false, and after a failed login
\* the terminal session is shut down; download_historical_data on a connector
\* that is not connected returns None and requests no rates; shutdown leaves
\* connected false and does nothing on a connector that is not connected; and
\* when download_data is over its last operation was shutdown and the
\* connector is not connected.
C30_ConnectionLifecycle ==
    /\ [][(connected' /\ ~connected) => Completes("initialize", "True")]_vars
    /\ [][Completes("initialize", "False") =>
            /\ ~connected'
            /\ Makes("login") => (Makes("shutdown") /\ ~session')]_vars
    /\ [][(~connected /\ \E a \in {"None", "df"} :
                              Completes("download_historical_data", a))
            => /\ Completes("download_historical_data", "None")
               /\ mt5_calls' = mt5_calls]_vars
    /\ [][Completes("shutdown", "None") =>
            /\ ~connected'
            /\ ~connected => (mt5_calls' = mt5_calls /\ session' = session)]_vars
    /\ [](dd_pc = "returned" =>
            /\ ~connected
            /\ calls # <<>>
            /\ calls[Len(calls)].op = "shutdown")

\* ---------------------------------------------------------- typing

TypeOK ==
    /\ pc \in {"idle", "loop", "long", "short", "done"}
    /\ Len(bars) = NBars
    /\ k \in 1..(NBars + 1)
    /\ touch_idx \in 0..NBars
    /\ Len(setups) <= 2 * NBars

====
